---- MODULE Spec2Model ----
(***************************************************************************)
(* State-machine model of the radiology assistant (React single page app). *)
(*                                                                         *)
(* The App component keeps one AppState object (prompt, processedFiles,    *)
(* urlEntries, reportData, isLoading, error).  FileUploadSection keeps a   *)
(* local fileError, ReportOutput keeps isEditing / editedText.  Every      *)
(* asynchronous handler (handleSubmit, handleGenerateAudioForEditedReport, *)
(* handleFileChange) is a task that runs one synchronous segment per       *)
(* action and is suspended at an await in between; the browser runs one    *)
(* segment at a time, so an action is one event-loop turn.                 *)
(*                                                                         *)
(* Representation.  A string is the sequence of its characters; a literal  *)
(* fragment that no string operation looks into is kept as one element.    *)
(* A nullable value is the empty sequence (null / undefined) or a          *)
(* one-element sequence.  List entries carry a crypto.randomUUID() id in   *)
(* the source; ids are unique, so an id names exactly one position and     *)
(* entries are addressed by position here.                                 *)
(*                                                                         *)
(* Specifications.  Spec is the whole page with one remote-call handler at *)
(* a time; SpecOverlap lets two of them overlap and leaves the file list   *)
(* alone; SpecIntake is the input panel with selections of up to           *)
(* MAX_IMAGES + 1 files, followed up to the first request of a submission; *)
(* SpecSubmit is the input panel and the whole submission, the report left *)
(* unedited; SpecOrder has two distinguishable files and URLs and follows  *)
(* a submission up to its report request; SpecFair is Spec with every      *)
(* remote call eventually settling; SpecSlots is the input panel with      *)
(* selections of MAX_IMAGES + 1 files; SpecLimits is the URL section with  *)
(* up to MAX_IMAGES fields; SpecEditor is the report editor with two       *)
(* submissions at a time over a one-file selection; SpecModal is the image *)
(* preview.                                                                *)
(***************************************************************************)
EXTENDS Integers, Sequences, FiniteSets, TLC

VARIABLES
    state,      \* App: the AppState object
    fileError,  \* FileUploadSection: useState fileError
    ro,         \* ReportOutput: [isEditing, editedText]
    tasks,      \* suspended handleSubmit / handleGenerateAudioForEditedReport calls
    fileTasks,  \* suspended handleFileChange calls
    net,        \* requests sent to a remote collaborator and not yet answered
    last,       \* the handler run by the last action, for the properties
    modal       \* ImagePreviewModal: its props, its state and its window listeners

vars == <<state, fileError, ro, tasks, fileTasks, net, last, modal>>

-----------------------------------------------------------------------------
(* Program constants *)

MAX_IMAGES == 10
MAX_FILE_SIZE_MB == 4
MAX_FILE_SIZE_BYTES == MAX_FILE_SIZE_MB * 1024 * 1024
SERVICE_MAX_PARTS == 10
URL_ECHO_LEN == 30

(* Bounds of the exploration *)

MaxTasks == 1           \* Spec: remote-call handlers suspended at once
MaxUrlEntries == 1      \* Spec: URL fields open at once
MaxSelection == 1       \* Spec: files in one selection
MaxFileTasks == 1       \* file selections being read at once
OverlapTasks == 2       \* SpecOverlap: remote-call handlers suspended at once
SubmitUrlEntries == 2   \* SpecSubmit: URL fields open at once
IntakeSelection == 2    \* SpecIntake: files in one short selection

-----------------------------------------------------------------------------
(* Values *)

None == <<>>
Some(x) == <<x>>

Min(a, b) == IF a < b THEN a ELSE b
Max(a, b) == IF a > b THEN a ELSE b

IsSpace(c) == c \in {" ", "\t", "\n"}

RECURSIVE TrimStart(_)
TrimStart(s) ==
    IF s = <<>> THEN s
    ELSE IF IsSpace(Head(s)) THEN TrimStart(Tail(s)) ELSE s

RECURSIVE TrimEnd(_)
TrimEnd(s) ==
    IF s = <<>> THEN s
    ELSE IF IsSpace(s[Len(s)]) THEN TrimEnd(SubSeq(s, 1, Len(s) - 1)) ELSE s

\* String.prototype.trim
trim(s) == TrimEnd(TrimStart(s))

\* String.prototype.substring(a, b), 0 <= a <= b
substring(s, a, b) == SubSeq(s, Min(a, Len(s)) + 1, Min(b, Len(s)))

\* a non-empty string is truthy
Truthy(s) == s # <<>>

\* an optional string that is neither null/undefined nor ""
TruthyOpt(o) == o # None /\ Truthy(o[1])

DefaultPrompt == <<"Descreva este Raio-x">>

PromptValues == {<<>>, <<" ">>, DefaultPrompt}
UrlValues == {<<>>, <<" ">>, <<"u">>, <<" ", "v">>}
ReportTexts == {<<>>, <<" ">>, <<"r">>}
EditTexts == {<<>>, <<"t">>}

\* Files the user can pick: name, size in bytes, and whether FileReader succeeds.
FileA == [name |-> <<"a">>, size |-> MAX_FILE_SIZE_BYTES, readable |-> TRUE]
FileB == [name |-> <<"b">>, size |-> MAX_FILE_SIZE_BYTES + 1, readable |-> TRUE]
FileC == [name |-> <<"c">>, size |-> 2 * MAX_FILE_SIZE_BYTES, readable |-> TRUE]
FileX == [name |-> <<"x">>, size |-> 2, readable |-> FALSE]
Files == {FileA, FileB, FileC, FileX}
\* a second file within the size limit, to tell the order of two staged files
FileD == [name |-> <<"d">>, size |-> 1, readable |-> TRUE]

SelectionsUpTo(n) == UNION {[1..k -> Files] : k \in 0..n}
FullSelection == [i \in 1..MAX_IMAGES |-> FileA]

\* The audio data URL the speech service returns for a text.
Synth(text) == [src |-> text]

-----------------------------------------------------------------------------
(* Messages: the sequence of the fragments a template string concatenates *)

MsgNoImages == <<"Nenhuma imagem fornecida. Adicione arquivos ou URLs.">>
MsgTooManyImages == <<"Voce pode fornecer no maximo ", ToString(MAX_IMAGES), " imagens.">>
MsgNoPrompt == <<"Por favor, insira um prompt.">>
MsgEmptyReport == <<"Falha ao gerar o texto do laudo.">>
MsgNoReportText == <<"Nao ha texto de laudo para gerar audio.">>
MsgSubmitFailed(m) == <<"Ocorreu um erro: ">> \o m
MsgAudioFailed(m) == <<"Falha ao gerar audio: ">> \o m
MsgUrlFailed(value, m) ==
    <<"Falha ao carregar imagem da URL \"">> \o substring(value, 0, URL_ECHO_LEN)
        \o <<"...\": ">> \o m

\* thrown by the service module
ErrNoParts == <<"Nenhuma imagem fornecida para analise.">>
ErrTooManyParts == <<"A analise e limitada a um maximo de 10 imagens.">>
ErrReport(m) == <<"Falha ao gerar laudo: ">> \o m
ErrEmptySpeechText == <<"Nao e possivel gerar fala a partir de texto vazio.">>
ErrSpeech(m) == <<"Falha ao gerar fala: ">> \o m
ErrFetch(m) ==
    <<"Falha ao buscar imagem da URL: ">> \o m
        \o <<". Isso pode ser devido a politica CORS no servidor da imagem.">>

\* what the remote side can answer
ApiError == <<"remote error">>
HttpError == <<"Falha ao buscar imagem: status">>
NoAudioError == <<"Falha ao gerar fala: Sem dados de audio na resposta e sem texto alternativo.">>
FetchOutcomes == {"ok", "httpError"}
SpeechOutcomes == {"ok", "noAudio"}

\* FileUploadSection messages
MsgTruncated(slots) ==
    <<"Voce pode carregar no maximo ", ToString(slots),
      " arquivo(s) no total (considerando as URLs). Apenas os primeiros ",
      ToString(slots), " arquivos foram considerados.">>
MsgTooBig(name) ==
    <<"O arquivo \"">> \o name
        \o <<"\" e muito grande (>", ToString(MAX_FILE_SIZE_MB), "MB). Ele nao sera incluido.">>
MsgUnreadable(name) == <<"Erro ao processar o arquivo \"">> \o name \o <<"\".">>

\* setFileError(prevError => (prevError ? prevError + "\n" : "") + msg)
AppendFileError(prev, msg) ==
    IF prev # None /\ Truthy(prev[1]) THEN Some(prev[1] \o <<"\n">> \o msg) ELSE Some(msg)

-----------------------------------------------------------------------------
(* App: derived values of a render *)

\* state.reportData?.text
ReportText(st) == IF st.reportData = None THEN None ELSE st.reportData[1].text

\* state.reportData?.audioDataUrl
AudioDataUrl(st) == IF st.reportData = None THEN None ELSE st.reportData[1].audioDataUrl

Report(text, audio) == Some([text |-> Some(text), audioDataUrl |-> audio])

numFilledUrlEntries(st) ==
    Cardinality({i \in DOMAIN st.urlEntries : Truthy(trim(st.urlEntries[i]))})

totalImagesProvided(st) == Len(st.processedFiles) + numFilledUrlEntries(st)

\* variant: a disabled attribute without the image limit
SubmitDisabled_NoLimit(st) ==
    \/ st.isLoading
    \/ ~Truthy(trim(st.prompt))
    \/ totalImagesProvided(st) = 0

\* the submit button's disabled attribute
SubmitDisabled(st) ==
    \/ st.isLoading
    \/ ~Truthy(trim(st.prompt))
    \/ totalImagesProvided(st) = 0
    \/ totalImagesProvided(st) > MAX_IMAGES

\* FileUploadSection: the file input's disabled attribute
fileInputDisabled(st) ==
    LET canAddMoreFiles ==
            (MAX_IMAGES - numFilledUrlEntries(st) - Len(st.processedFiles)) > 0
    IN  \/ st.isLoading
        \/ ~canAddMoreFiles
        \/ numFilledUrlEntries(st) + Len(st.processedFiles) >= MAX_IMAGES

\* UrlInputSection: the add button's disabled attribute
addButtonDisabled(st) ==
    LET canAddMoreUrlFields == Len(st.urlEntries) < MAX_IMAGES
        canSubmitMoreImagesViaUrl == totalImagesProvided(st) < MAX_IMAGES
    IN  st.isLoading \/ ~canAddMoreUrlFields \/ ~canSubmitMoreImagesViaUrl

\* variant: the skeleton is shown whenever isLoading, with or without a text
View_LoadingHidesReport(st, r) ==
    IF st.isLoading THEN "loading"
    ELSE IF st.error # None /\ Truthy(st.error[1]) THEN "error"
    ELSE IF ~TruthyOpt(ReportText(st)) /\ AudioDataUrl(st) = None /\ ~r.isEditing
         THEN "placeholder"
    ELSE "report"

\* ReportOutput: which of its four returns renders
View(st, r) ==
    IF st.isLoading /\ ~TruthyOpt(ReportText(st)) THEN "loading"
    ELSE IF st.error # None /\ Truthy(st.error[1]) THEN "error"
    ELSE IF ~TruthyOpt(ReportText(st)) /\ AudioDataUrl(st) = None /\ ~r.isEditing
         THEN "placeholder"
    ELSE "report"

\* ReportOutput: useEffect(..., [reportText, isEditing]) after a render in which
\* the App state went from prevSt to st and the local state from prevRo to r
useEffectReport(prevSt, prevRo, st, r) ==
    IF ReportText(prevSt) = ReportText(st) /\ prevRo.isEditing = r.isEditing THEN r
    ELSE LET text == ReportText(st)
             a == IF TruthyOpt(text) /\ ~r.isEditing
                  THEN [r EXCEPT !.editedText = text[1]] ELSE r
         IN  IF text = None THEN [isEditing |-> FALSE, editedText |-> <<>>] ELSE a

-----------------------------------------------------------------------------
(* App: state updaters *)

\* variant: the new files are appended to the staged ones
handleFileSelectionChange_Appends(st, newFilesFromInput) ==
    [st EXCEPT !.processedFiles = @ \o newFilesFromInput, !.error = None]

handleFileSelectionChange(st, newFilesFromInput) ==
    [st EXCEPT !.processedFiles = newFilesFromInput, !.error = None]

\* variant: a field is added whatever the counts are
addUrlEntry_Unchecked(st) == [st EXCEPT !.urlEntries = Append(@, <<>>)]

addUrlEntry(st) ==
    LET currentFileCount == Len(st.processedFiles)
        currentUrlFieldsCount == Len(st.urlEntries)
        totalStagedImages == currentFileCount + numFilledUrlEntries(st)
    IN  IF currentUrlFieldsCount < MAX_IMAGES /\ totalStagedImages < MAX_IMAGES
        THEN [st EXCEPT !.urlEntries = Append(@, <<>>)]
        ELSE st

RemoveAt(s, i) == SubSeq(s, 1, i - 1) \o SubSeq(s, i + 1, Len(s))

removeUrlEntry(st, i) == [st EXCEPT !.urlEntries = RemoveAt(@, i)]

updateUrlEntryValue(st, i, newValue) == [st EXCEPT !.urlEntries[i] = newValue]

\* variant: a save that keeps the audio
handleSaveEditedReport_KeepAudio(st, newText) ==
    [st EXCEPT !.reportData = Report(newText, AudioDataUrl(st)),
               !.isLoading = FALSE, !.error = None]

handleSaveEditedReport(st, newText) ==
    [st EXCEPT !.reportData = Report(newText, None), !.isLoading = FALSE, !.error = None]

-----------------------------------------------------------------------------
(* Asynchronous handlers.  A run of a handler from one resumption point to  *)
(* the next await (or to its return) yields the App state it leaves, the    *)
(* task, whether it returned, and the request it sent, if any.              *)

Finish(st, t) == [st |-> st, t |-> t, done |-> TRUE, req |-> None]
Suspend(st, t, rq) == [st |-> st, t |-> t, done |-> FALSE, req |-> Some(rq)]

Logged(t, ev, idx) == [t EXCEPT !.log = Append(@, [ev |-> ev, idx |-> idx])]

Request(tid, kind, idx) ==
    [tid |-> tid, kind |-> kind, idx |-> idx,
     url |-> <<>>, prompt |-> <<>>, parts |-> <<>>, text |-> <<>>]

FilePart(file) == [src |-> "file", data |-> file.name]
UrlPart(url) == [src |-> "url", data |-> url]

\* variant: a rejected submission also empties the staged file list
Stop_ClearsFiles(st, message) ==
    [st EXCEPT !.isLoading = FALSE, !.error = Some(message), !.processedFiles = <<>>]

Stop(st, message) == [st EXCEPT !.isLoading = FALSE, !.error = Some(message)]

\* variant: the service sends whatever number of parts it is given
generateReportFromImage_Unchecked(st, t) ==
    Suspend(st, Logged([t EXCEPT !.pc = "report"], "report", 0),
            [Request(t.tid, "report", 0) EXCEPT !.prompt = t.prompt, !.parts = t.parts])

\* generateReportFromImage up to its await of ai.models.generateContent
generateReportFromImage(st, t) ==
    IF Len(t.parts) = 0 THEN Finish(Stop(st, MsgSubmitFailed(ErrNoParts)), t)
    ELSE IF Len(t.parts) > SERVICE_MAX_PARTS
         THEN Finish(Stop(st, MsgSubmitFailed(ErrTooManyParts)), t)
    ELSE Suspend(st, Logged([t EXCEPT !.pc = "report"], "report", 0),
                 [Request(t.tid, "report", 0) EXCEPT !.prompt = t.prompt, !.parts = t.parts])

\* handleSubmit after its URL loop, up to the await of generateReportFromImage
SubmitAfterLoop(st, t) ==
    IF Len(t.parts) = 0 THEN Finish(Stop(st, MsgNoImages), t)
    ELSE IF Len(t.parts) > MAX_IMAGES THEN Finish(Stop(st, MsgTooManyImages), t)
    ELSE IF ~Truthy(trim(t.prompt)) THEN Finish(Stop(st, MsgNoPrompt), t)
    ELSE generateReportFromImage(st, t)

\* variant: a loop that takes the last entry first
SubmitUrlLoop_LastFirst(st, t, i) ==
    LET due == {j \in i..Len(t.urls) :
                    Len(t.parts) < MAX_IMAGES /\ Truthy(trim(t.urls[j]))}
    IN  IF due = {} THEN SubmitAfterLoop(st, t)
        ELSE LET j == CHOOSE k \in due : \A m \in due : k >= m
             IN  Suspend(st, Logged([t EXCEPT !.pc = "fetch", !.i = j], "fetch", j),
                         [Request(t.tid, "fetch", j) EXCEPT !.url = trim(t.urls[j])])

\* handleSubmit: the loop over state.urlEntries from entry i to the next await
SubmitUrlLoop(st, t, i) ==
    LET due == {j \in i..Len(t.urls) :
                    Len(t.parts) < MAX_IMAGES /\ Truthy(trim(t.urls[j]))}
    IN  IF due = {} THEN SubmitAfterLoop(st, t)
        ELSE LET j == CHOOSE k \in due : \A m \in due : k <= m
             IN  Suspend(st, Logged([t EXCEPT !.pc = "fetch", !.i = j], "fetch", j),
                         [Request(t.tid, "fetch", j) EXCEPT !.url = trim(t.urls[j])])

\* handleSubmit from the click to its first await; st is the state of the
\* render whose closure the handler runs in
handleSubmit(st, tid) ==
    LET files == st.processedFiles
        imageParts == [k \in 1..Min(Len(files), MAX_IMAGES) |-> FilePart(files[k])]
        t == [tid |-> tid, kind |-> "submit", pc |-> "start",
              files |-> files, urls |-> st.urlEntries, prompt |-> st.prompt,
              i |-> 0, parts |-> imageParts, text |-> <<>>, clean |-> TRUE, log |-> <<>>]
    IN  SubmitUrlLoop([st EXCEPT !.isLoading = TRUE, !.error = None, !.reportData = None],
                      t, 1)

\* variant: a failed fetch is skipped and the loop goes on
SubmitOnFetch_SkipFailed(st, t, outcome) ==
    IF outcome = "ok"
    THEN SubmitUrlLoop(st, Logged([t EXCEPT !.parts = Append(@, UrlPart(trim(t.urls[t.i])))],
                                  "fetchOk", t.i),
                       t.i + 1)
    ELSE SubmitUrlLoop(st, Logged(t, "fetchFail", t.i), t.i + 1)

\* variant: a fetched image is put in front of the parts collected so far
SubmitOnFetch_Prepends(st, t, outcome) ==
    IF outcome = "ok"
    THEN SubmitUrlLoop(st, Logged([t EXCEPT !.parts = <<UrlPart(trim(t.urls[t.i]))>> \o @],
                                  "fetchOk", t.i),
                       t.i + 1)
    ELSE Finish(Stop(st, MsgUrlFailed(t.urls[t.i], ErrFetch(HttpError))),
                Logged(t, "fetchFail", t.i))

\* handleSubmit resumed by fetchImageAsBase64
SubmitOnFetch(st, t, outcome) ==
    IF outcome = "ok"
    THEN SubmitUrlLoop(st, Logged([t EXCEPT !.parts = Append(@, UrlPart(trim(t.urls[t.i])))],
                                  "fetchOk", t.i),
                       t.i + 1)
    ELSE Finish(Stop(st, MsgUrlFailed(t.urls[t.i], ErrFetch(HttpError))),
                Logged(t, "fetchFail", t.i))

\* variant: the catch of handleSubmit leaves isLoading as it is
SubmitCatch_KeepsLoading(st, m) == [st EXCEPT !.error = Some(MsgSubmitFailed(m))]

SubmitCatch(st, m) == Stop(st, MsgSubmitFailed(m))
RegenCatch(st, m) == Stop(st, MsgAudioFailed(m))

\* generateSpeechFromText up to its await of ai.models.generateContent; what
\* it throws before that lands in the catch of the handler that called it
generateSpeechFromText(st, t, textToSynthesize) ==
    IF ~Truthy(textToSynthesize) \/ trim(textToSynthesize) = <<>>
    THEN Finish(IF t.kind = "submit" THEN SubmitCatch(st, ErrEmptySpeechText)
                                     ELSE RegenCatch(st, ErrEmptySpeechText), t)
    ELSE Suspend(st, Logged([t EXCEPT !.pc = "speech", !.text = textToSynthesize], "speech", 0),
                 [Request(t.tid, "speech", 0) EXCEPT !.text = textToSynthesize])

\* variant: the speech request is attempted whatever the report text is
SubmitOnReport_AlwaysSpeech(st, t, answer) ==
    IF answer = None
    THEN Finish(SubmitCatch(st, ErrReport(ApiError)), Logged(t, "reportFail", 0))
    ELSE LET reportText == answer[1]
             st1 == [st EXCEPT !.reportData = Report(reportText, None)]
             t1 == Logged(t, "reportOk", 0)
         IN  generateSpeechFromText(st1, t1, reportText)

\* handleSubmit resumed by generateReportFromImage; answer is the text or None
SubmitOnReport(st, t, answer) ==
    IF answer = None
    THEN Finish(SubmitCatch(st, ErrReport(ApiError)), Logged(t, "reportFail", 0))
    ELSE LET reportText == answer[1]
             st1 == [st EXCEPT !.reportData = Report(reportText, None)]
             t1 == Logged(t, "reportOk", 0)
         IN  IF Truthy(reportText)
             THEN generateSpeechFromText(st1, t1, reportText)
             ELSE Finish(Stop(st1, MsgEmptyReport), t1)

\* handleSubmit resumed by generateSpeechFromText; rq is the answered request
SubmitOnSpeech(st, t, rq, outcome) ==
    IF outcome = "ok"
    THEN Finish([st EXCEPT !.reportData = Report(t.text, Some(Synth(rq.text))),
                           !.isLoading = FALSE],
                Logged(t, "speechOk", 0))
    ELSE Finish(SubmitCatch(st, ErrSpeech(NoAudioError)), Logged(t, "speechFail", 0))

\* handleGenerateAudioForEditedReport from the click to its await
handleGenerateAudioForEditedReport(st, tid) ==
    LET t == [tid |-> tid, kind |-> "regen", pc |-> "start",
              files |-> <<>>, urls |-> <<>>, prompt |-> <<>>,
              i |-> 0, parts |-> <<>>, text |-> <<>>, clean |-> TRUE, log |-> <<>>]
    IN  IF ~TruthyOpt(ReportText(st))
        THEN Finish([st EXCEPT !.error = Some(MsgNoReportText)], t)
        ELSE generateSpeechFromText([st EXCEPT !.isLoading = TRUE, !.error = None],
                                    t, ReportText(st)[1])

\* variant: a failed speech request is sent again
RegenOnSpeech_Retries(st, t, rq, outcome) ==
    IF outcome = "ok"
    THEN LET audioDataUrl == Some(Synth(rq.text))
             merged == IF st.reportData = None
                       THEN [text |-> None, audioDataUrl |-> audioDataUrl]
                       ELSE [st.reportData[1] EXCEPT !.audioDataUrl = audioDataUrl]
         IN  Finish([st EXCEPT !.reportData = Some(merged), !.isLoading = FALSE],
                    Logged(t, "speechOk", 0))
    ELSE generateSpeechFromText(st, Logged(t, "speechFail", 0), rq.text)

\* handleGenerateAudioForEditedReport resumed by generateSpeechFromText
RegenOnSpeech(st, t, rq, outcome) ==
    IF outcome = "ok"
    THEN LET audioDataUrl == Some(Synth(rq.text))
             merged == IF st.reportData = None
                       THEN [text |-> None, audioDataUrl |-> audioDataUrl]
                       ELSE [st.reportData[1] EXCEPT !.audioDataUrl = audioDataUrl]
         IN  Finish([st EXCEPT !.reportData = Some(merged), !.isLoading = FALSE],
                    Logged(t, "speechOk", 0))
    ELSE Finish(RegenCatch(st, ErrSpeech(NoAudioError)), Logged(t, "speechFail", 0))

-----------------------------------------------------------------------------
(* FileUploadSection.handleFileChange *)

\* the entry pushed for a file that was read; size is the size of its payload
Staged(file) == [name |-> file.name, size |-> file.size]

\* the for loop from the file at the head of rest to the next await
RECURSIVE FileLoop(_, _, _)
FileLoop(fe, rest, acc) ==
    IF rest = <<>> THEN [fe |-> fe, rest |-> rest, acc |-> acc, done |-> TRUE]
    ELSE IF Head(rest).size > MAX_FILE_SIZE_BYTES
         THEN FileLoop(AppendFileError(fe, MsgTooBig(Head(rest).name)), Tail(rest), acc)
    ELSE [fe |-> fe, rest |-> rest, acc |-> acc, done |-> FALSE]

\* variant: the oversized files are dropped before the selection is cut to
\* the available slots
handleFileChange_FilterFirst(st, selection) ==
    LET slotsAvailableForNewFiles == MAX_IMAGES - numFilledUrlEntries(st)
        fe == IF Len(selection) > slotsAvailableForNewFiles
              THEN Some(MsgTruncated(slotsAvailableForNewFiles)) ELSE None
        fitting == SelectSeq(selection, LAMBDA f : f.size <= MAX_FILE_SIZE_BYTES)
        filesToProcess ==
            SubSeq(fitting, 1, Min(Len(fitting), Max(0, slotsAvailableForNewFiles)))
        r == FileLoop(fe, filesToProcess, <<>>)
    IN  [fe |-> r.fe, rest |-> r.rest, acc |-> r.acc, done |-> r.done,
         slots |-> slotsAvailableForNewFiles]

\* from the change event to the first await
handleFileChange(st, selection) ==
    LET slotsAvailableForNewFiles == MAX_IMAGES - numFilledUrlEntries(st)
        fe == IF Len(selection) > slotsAvailableForNewFiles
              THEN Some(MsgTruncated(slotsAvailableForNewFiles)) ELSE None
        filesToProcess ==
            SubSeq(selection, 1, Min(Len(selection), Max(0, slotsAvailableForNewFiles)))
        r == FileLoop(fe, filesToProcess, <<>>)
    IN  [fe |-> r.fe, rest |-> r.rest, acc |-> r.acc, done |-> r.done,
         slots |-> slotsAvailableForNewFiles]

\* resumed by readFileAsBase64 for the file at the head of rest
FileOnRead(fe, rest, acc) ==
    IF Head(rest).readable
    THEN FileLoop(fe, Tail(rest), Append(acc, Staged(Head(rest))))
    ELSE FileLoop(AppendFileError(fe, MsgUnreadable(Head(rest).name)), Tail(rest), acc)

handleRemoveFile(st, i) == handleFileSelectionChange(st, RemoveAt(st.processedFiles, i))

-----------------------------------------------------------------------------
(* ImagePreviewModal.  zoom is a fixed-point number, ZoomScale to the unit,  *)
(* and pan and mouse coordinates are whole pixels; quotients are truncated. *)
(* A function object the component creates is named by deps, the identity   *)
(* of the dragStartMouse / dragStartPan objects its useCallback depends on. *)

ZoomScale == 20
MIN_ZOOM == ZoomScale \div 2
MAX_ZOOM == 5 * ZoomScale
ZOOM_STEP_FACTOR == ZoomScale \div 10

Origin == [x |-> 0, y |-> 0]

\* what the last action dispatched to the modal
ModalEvent(op, e) == [op |-> op, deltaY |-> e.deltaY, x |-> e.x, y |-> e.y]
NoEvent == [deltaY |-> 0, x |-> 0, y |-> 0]

\* the component after its first render and effect
ModalInit ==
    [imageUrl |-> None, zoom |-> ZoomScale, pan |-> Origin, isDragging |-> FALSE,
     dragStartPan |-> Origin, dragStartMouse |-> Origin,
     deps |-> 0, listeners |-> <<>>, ev |-> ModalEvent("mount", NoEvent)]

\* handleMouseMoveGlobal and handleMouseUpGlobal as created by the render of m
Listener(m) ==
    [deps |-> m.deps, dragStartPan |-> m.dragStartPan, dragStartMouse |-> m.dragStartMouse]

\* window.addEventListener / removeEventListener for that pair
addEventListener(listeners, l) ==
    IF \E k \in DOMAIN listeners : listeners[k] = l THEN listeners ELSE Append(listeners, l)
removeEventListener(listeners, deps) == SelectSeq(listeners, LAMBDA l : l.deps # deps)

\* the identity of an object created by { ...pan } or { x: ..., y: ... }
FreshDeps(m) ==
    CHOOSE n \in 0..(Len(m.listeners) + 1) :
        n # m.deps /\ \A k \in DOMAIN m.listeners : m.listeners[k].deps # n

handleMouseMoveGlobal(l, m, e) ==
    [m EXCEPT !.pan = [x |-> l.dragStartPan.x + (e.x - l.dragStartMouse.x),
                       y |-> l.dragStartPan.y + (e.y - l.dragStartMouse.y)]]

handleMouseUpGlobal(l, m) ==
    [m EXCEPT !.isDragging = FALSE, !.listeners = removeEventListener(@, l.deps)]

handleMouseDown(m, e) ==
    IF m.zoom <= ZoomScale THEN m
    ELSE [m EXCEPT !.isDragging = TRUE,
                   !.dragStartPan = m.pan,
                   !.dragStartMouse = [x |-> e.x, y |-> e.y],
                   !.deps = FreshDeps(m),
                   !.listeners = addEventListener(@, Listener(m))]

handleWheel_NoUpperLimit(m, e) ==
    LET oldZoom == m.zoom
        scaled == IF e.deltaY < 0
                  THEN (oldZoom * (ZoomScale + ZOOM_STEP_FACTOR)) \div ZoomScale
                  ELSE (oldZoom * ZoomScale) \div (ZoomScale + ZOOM_STEP_FACTOR)
        newZoom == Max(MIN_ZOOM, scaled)
    IN  IF newZoom = oldZoom THEN m
        ELSE [m EXCEPT !.zoom = newZoom,
                       !.pan = [x |-> e.x - ((e.x - m.pan.x) * newZoom) \div oldZoom,
                                y |-> e.y - ((e.y - m.pan.y) * newZoom) \div oldZoom]]

handleWheel(m, e) ==
    LET mouseX == e.x
        mouseY == e.y
        oldZoom == m.zoom
        scaled == IF e.deltaY < 0
                  THEN (oldZoom * (ZoomScale + ZOOM_STEP_FACTOR)) \div ZoomScale
                  ELSE (oldZoom * ZoomScale) \div (ZoomScale + ZOOM_STEP_FACTOR)
        newZoom == Max(MIN_ZOOM, Min(MAX_ZOOM, scaled))
    IN  IF newZoom = oldZoom THEN m
        ELSE [m EXCEPT !.zoom = newZoom,
                       !.pan = [x |-> mouseX - ((mouseX - m.pan.x) * newZoom) \div oldZoom,
                                y |-> mouseY - ((mouseY - m.pan.y) * newZoom) \div oldZoom]]

\* useEffect(..., [imageUrl, handleMouseMoveGlobal, handleMouseUpGlobal]) after
\* a render that took the component from prev to m: the cleanup of the last
\* run, then the body
resetEffect(prev, m) ==
    IF m.imageUrl = prev.imageUrl /\ m.deps = prev.deps THEN m
    ELSE [m EXCEPT !.zoom = ZoomScale, !.pan = Origin, !.isDragging = FALSE,
                   !.listeners = removeEventListener(
                                     removeEventListener(@, prev.deps), m.deps)]

-----------------------------------------------------------------------------
(* Actions: one event-loop turn each *)

ToSet(o) == {o[i] : i \in DOMAIN o}

\* what the last action ran: the handler, its task (if it is a remote-call
\* handler), whether the handler returned, and the handler's argument (the
\* saved text, the file selection being read) where a property refers to it
Event(op, t, done, arg) == [op |-> op, t |-> t, done |-> done, arg |-> arg]
Quiet == Event("input", None, TRUE, None)

\* a task is clean while the user does nothing else after starting it
UserDirty(ts) == {[t EXCEPT !.clean = FALSE] : t \in ts}

FreshTid == CHOOSE n \in 1..(Cardinality(tasks) + 1) : \A t \in tasks : t.tid # n
FreshFid == CHOOSE n \in 1..(Cardinality(fileTasks) + 1) : \A f \in fileTasks : f.fid # n

\* a handler segment res ran for a task; others are the tasks left suspended
TaskStep(res, others, answered, op) ==
    /\ state' = res.st
    /\ tasks' = others \cup (IF res.done THEN {} ELSE {res.t})
    /\ net' = (net \ answered) \cup ToSet(res.req)
    /\ ro' = useEffectReport(state, ro, res.st, ro)
    /\ last' = Event(op, Some(res.t), res.done, None)
    /\ UNCHANGED <<fileError, fileTasks, modal>>

\* a synchronous handler of an input control left the App state st
UserStep(st, ev) ==
    /\ state' = st
    /\ ro' = useEffectReport(state, ro, st, ro)
    /\ tasks' = UserDirty(tasks)
    /\ last' = ev
    /\ UNCHANGED <<fileError, fileTasks, net, modal>>

Init ==
    /\ state = [prompt |-> DefaultPrompt, processedFiles |-> <<>>, urlEntries |-> << <<>> >>,
                reportData |-> None, isLoading |-> FALSE, error |-> None]
    /\ fileError = None
    /\ ro = [isEditing |-> FALSE, editedText |-> <<>>]
    /\ tasks = {}
    /\ fileTasks = {}
    /\ net = {}
    /\ last = Quiet
    /\ modal = ModalInit

\* the prompt textarea's onChange
SetPrompt(prompts) ==
    /\ ~state.isLoading
    /\ \E v \in prompts \ {state.prompt} :
        UserStep([state EXCEPT !.prompt = v], Quiet)

\* the file input's onChange: handleFileChange up to its first await
FileChange(selections, maxFileTasks) ==
    /\ ~fileInputDisabled(state)
    /\ Cardinality(fileTasks) < maxFileTasks
    /\ \E selection \in selections :
        LET r == handleFileChange(state, selection)
            st == IF r.done THEN handleFileSelectionChange(state, r.acc) ELSE state
            ft == [fid |-> FreshFid, selection |-> selection, slots |-> r.slots,
                   rest |-> r.rest, acc |-> r.acc]
        IN  /\ fileError' = r.fe
            /\ fileTasks' = IF r.done THEN fileTasks ELSE fileTasks \cup {ft}
            /\ state' = st
            /\ ro' = useEffectReport(state, ro, st, ro)
            /\ tasks' = UserDirty(tasks)
            /\ last' = Event("fileChange", None, r.done, Some(ft))
            /\ UNCHANGED <<net, modal>>

\* readFileAsBase64 settles: handleFileChange up to its next await or its end
FileRead ==
    \E ft \in fileTasks :
        LET r == FileOnRead(fileError, ft.rest, ft.acc)
            st == IF r.done THEN handleFileSelectionChange(state, r.acc) ELSE state
            ft1 == [ft EXCEPT !.rest = r.rest, !.acc = r.acc]
        IN  /\ fileError' = r.fe
            /\ fileTasks' = (fileTasks \ {ft}) \cup (IF r.done THEN {} ELSE {ft1})
            /\ state' = st
            /\ ro' = useEffectReport(state, ro, st, ro)
            /\ last' = Event("fileRead", None, r.done, Some(ft1))
            /\ UNCHANGED <<tasks, net, modal>>

\* the remove button of a staged file
RemoveFile ==
    /\ ~state.isLoading
    /\ \E i \in DOMAIN state.processedFiles :
        UserStep(handleRemoveFile(state, i), Quiet)

\* the add button of the URL section
AddUrlEntry(maxUrlEntries) ==
    /\ ~addButtonDisabled(state)
    /\ Len(state.urlEntries) < maxUrlEntries
    /\ UserStep(addUrlEntry(state), Quiet)

\* the remove button of a URL field
RemoveUrlEntry ==
    /\ ~state.isLoading
    /\ \E i \in DOMAIN state.urlEntries :
        UserStep(removeUrlEntry(state, i), Quiet)

\* a URL input's onChange
UpdateUrlEntryValue(values) ==
    /\ ~state.isLoading
    /\ \E i \in DOMAIN state.urlEntries : \E v \in values \ {state.urlEntries[i]} :
        UserStep(updateUrlEntryValue(state, i, v), Quiet)

\* a click on the enabled submit button
Submit(maxTasks) ==
    /\ ~SubmitDisabled(state)
    /\ Cardinality(tasks) < maxTasks
    /\ TaskStep(handleSubmit(state, FreshTid), UserDirty(tasks), {}, "submit")

\* a click on the disabled submit button: no event is dispatched
SubmitBlocked ==
    /\ SubmitDisabled(state)
    /\ last' = Event("submitBlocked", None, TRUE, None)
    /\ UNCHANGED <<state, fileError, ro, tasks, fileTasks, net, modal>>

TaskOf(rq) == CHOOSE t \in tasks : t.tid = rq.tid

\* fetchImageAsBase64 settles
FetchResponse ==
    \E rq \in net : \E outcome \in FetchOutcomes :
        /\ rq.kind = "fetch"
        /\ TaskStep(SubmitOnFetch(state, TaskOf(rq), outcome),
                    tasks \ {TaskOf(rq)}, {rq}, "fetchResponse")

\* generateReportFromImage settles
ReportResponse ==
    \E rq \in net : \E answer \in {None} \cup {Some(x) : x \in ReportTexts} :
        /\ rq.kind = "report"
        /\ TaskStep(SubmitOnReport(state, TaskOf(rq), answer),
                    tasks \ {TaskOf(rq)}, {rq}, "reportResponse")

\* generateSpeechFromText settles for handleSubmit
SubmitSpeechResponse ==
    \E rq \in net : \E outcome \in SpeechOutcomes :
        /\ rq.kind = "speech"
        /\ TaskOf(rq).kind = "submit"
        /\ TaskStep(SubmitOnSpeech(state, TaskOf(rq), rq, outcome),
                    tasks \ {TaskOf(rq)}, {rq}, "submitSpeechResponse")

\* generateSpeechFromText settles for handleGenerateAudioForEditedReport
RegenSpeechResponse ==
    \E rq \in net : \E outcome \in SpeechOutcomes :
        /\ rq.kind = "speech"
        /\ TaskOf(rq).kind = "regen"
        /\ TaskStep(RegenOnSpeech(state, TaskOf(rq), rq, outcome),
                    tasks \ {TaskOf(rq)}, {rq}, "regenSpeechResponse")

\* ReportOutput.handleEditClick
EditClick ==
    /\ View(state, ro) = "report"
    /\ ~ro.isEditing
    /\ TruthyOpt(ReportText(state))
    /\ ro' = [isEditing |-> TRUE, editedText |-> ReportText(state)[1]]
    /\ tasks' = UserDirty(tasks)
    /\ last' = Quiet
    /\ UNCHANGED <<state, fileError, fileTasks, net, modal>>

\* the editor textarea's onChange
EditType(texts) ==
    /\ View(state, ro) = "report"
    /\ ro.isEditing
    /\ ReportText(state) # None
    /\ \E v \in texts \ {ro.editedText} :
        /\ ro' = [ro EXCEPT !.editedText = v]
        /\ tasks' = UserDirty(tasks)
        /\ last' = Quiet
        /\ UNCHANGED <<state, fileError, fileTasks, net, modal>>

\* ReportOutput.handleSaveClick
SaveClick ==
    /\ View(state, ro) = "report"
    /\ ro.isEditing
    /\ LET st == handleSaveEditedReport(state, ro.editedText)
       IN  /\ state' = st
           /\ ro' = useEffectReport(state, ro, st, [ro EXCEPT !.isEditing = FALSE])
           /\ tasks' = UserDirty(tasks)
           /\ last' = Event("save", None, TRUE, Some(ro.editedText))
           /\ UNCHANGED <<fileError, fileTasks, net, modal>>

\* ReportOutput.handleCancelClick
CancelClick ==
    /\ View(state, ro) = "report"
    /\ ro.isEditing
    /\ LET r == [isEditing |-> FALSE,
                 editedText |-> IF TruthyOpt(ReportText(state))
                                THEN ReportText(state)[1] ELSE ro.editedText]
       IN  ro' = useEffectReport(state, ro, state, r)
    /\ tasks' = UserDirty(tasks)
    /\ last' = Quiet
    /\ UNCHANGED <<state, fileError, fileTasks, net, modal>>

\* a click on the enabled generate-audio button
GenerateAudioClick(maxTasks) ==
    /\ View(state, ro) = "report"
    /\ ~ro.isEditing
    /\ TruthyOpt(ReportText(state))
    /\ AudioDataUrl(state) = None
    /\ ~state.isLoading
    /\ Cardinality(tasks) < maxTasks
    /\ TaskStep(handleGenerateAudioForEditedReport(state, FreshTid),
                UserDirty(tasks), {}, "generateAudio")

-----------------------------------------------------------------------------
(* ImagePreviewModal: events *)

\* the pointer rests at one place of the viewport; a wheel event there turns
\* either way
Pointer == [x |-> 2 * ZoomScale, y |-> ZoomScale]
WheelEvents == {[deltaY |-> d, x |-> Pointer.x, y |-> Pointer.y] : d \in {-1, 1}}
MouseEvents == {[deltaY |-> 0, x |-> Pointer.x, y |-> Pointer.y]}

\* a handler left the component as m; the render and its effect follow
ModalStep(m, op, e) ==
    /\ modal' = [resetEffect(modal, m) EXCEPT !.ev = ModalEvent(op, e)]
    /\ UNCHANGED <<state, fileError, ro, tasks, fileTasks, net, last>>

\* a click on the thumbnail of a staged file
OpenImagePreview ==
    /\ modal.imageUrl = None
    /\ \E k \in DOMAIN state.processedFiles :
        ModalStep([modal EXCEPT !.imageUrl = Some(state.processedFiles[k].name)],
                  "open", NoEvent)

\* a click on the backdrop or on the close button
CloseImagePreview ==
    /\ modal.imageUrl # None
    /\ ModalStep([modal EXCEPT !.imageUrl = None], "close", NoEvent)

\* a wheel event over the image viewport
Wheel ==
    /\ modal.imageUrl # None
    /\ \E e \in WheelEvents : ModalStep(handleWheel(modal, e), "wheel", e)

\* a mouse press on the image viewport
MouseDown ==
    /\ modal.imageUrl # None
    /\ \E e \in MouseEvents : ModalStep(handleMouseDown(modal, e), "mouseDown", e)

RECURSIVE MoveAll(_, _, _)
MoveAll(listeners, m, e) ==
    IF listeners = <<>> THEN m
    ELSE MoveAll(Tail(listeners), handleMouseMoveGlobal(Head(listeners), m, e), e)

RECURSIVE UpAll(_, _)
UpAll(listeners, m) ==
    IF listeners = <<>> THEN m
    ELSE UpAll(Tail(listeners), handleMouseUpGlobal(Head(listeners), m))

\* a mousemove event reaches the window
MouseMove ==
    \E e \in MouseEvents : ModalStep(MoveAll(modal.listeners, modal, e), "mouseMove", e)

\* a mouseup event reaches the window
MouseUp == ModalStep(UpAll(modal.listeners, modal), "mouseUp", NoEvent)

-----------------------------------------------------------------------------
(* Spec: the whole page, one remote-call handler at a time *)

SpecPrompts == {<<" ">>, DefaultPrompt}
SpecUrlValues == {<<>>, <<" ", "v">>}
SpecEditTexts == {<<>>, <<"t">>}

Next ==
    \/ SetPrompt(SpecPrompts)
    \/ FileChange(SelectionsUpTo(MaxSelection), MaxFileTasks)
    \/ FileRead
    \/ RemoveFile
    \/ AddUrlEntry(MaxUrlEntries)
    \/ RemoveUrlEntry
    \/ UpdateUrlEntryValue(SpecUrlValues)
    \/ Submit(MaxTasks)
    \/ SubmitBlocked
    \/ FetchResponse
    \/ ReportResponse
    \/ SubmitSpeechResponse
    \/ RegenSpeechResponse
    \/ EditClick
    \/ EditType(SpecEditTexts)
    \/ SaveClick
    \/ CancelClick
    \/ GenerateAudioClick(MaxTasks)

Spec == Init /\ [][Next]_vars

\* the remote call the handler numbered n waits for settles, with a result or
\* with a failure
Settle(n) ==
    /\ FetchResponse \/ ReportResponse \/ SubmitSpeechResponse \/ RegenSpeechResponse
    /\ last'.t[1].tid = n

\* Spec with every remote call eventually settling
SpecFair == Init /\ [][Next]_vars /\ \A n \in 1..MaxTasks : WF_vars(Settle(n))

-----------------------------------------------------------------------------
(* SpecOverlap: the page with its file list left empty, two remote-call     *)
(* handlers at a time                                                       *)

NextOverlap ==
    \/ SetPrompt(SpecPrompts)
    \/ AddUrlEntry(MaxUrlEntries)
    \/ RemoveUrlEntry
    \/ UpdateUrlEntryValue(SpecUrlValues)
    \/ Submit(OverlapTasks)
    \/ SubmitBlocked
    \/ FetchResponse
    \/ ReportResponse
    \/ SubmitSpeechResponse
    \/ RegenSpeechResponse
    \/ EditClick
    \/ EditType(SpecEditTexts)
    \/ SaveClick
    \/ CancelClick
    \/ GenerateAudioClick(OverlapTasks)

SpecOverlap == Init /\ [][NextOverlap]_vars

-----------------------------------------------------------------------------
(* SpecIntake: the input panel and the submit button; a submission is       *)
(* followed up to its first request                                         *)

IntakeFiles == {FileA, FileB, FileX}
IntakeSelections ==
    UNION {[1..k -> IntakeFiles] : k \in 0..IntakeSelection}
        \cup {FullSelection, FullSelection \o <<FileB>>}

NextIntake ==
    \/ SetPrompt(PromptValues)
    \/ FileChange(IntakeSelections, MaxFileTasks)
    \/ FileRead
    \/ RemoveFile
    \/ AddUrlEntry(MaxUrlEntries)
    \/ RemoveUrlEntry
    \/ UpdateUrlEntryValue(UrlValues)
    \/ Submit(MaxTasks)
    \/ SubmitBlocked

SpecIntake == Init /\ [][NextIntake]_vars

-----------------------------------------------------------------------------
(* SpecSubmit: the input panel and the submission, the report left unedited *)

SubmitUrlValues == {<<>>, <<" ">>, <<"u">>}

NextSubmit ==
    \/ SetPrompt(SpecPrompts)
    \/ FileChange(SelectionsUpTo(MaxSelection), MaxFileTasks)
    \/ FileRead
    \/ RemoveFile
    \/ AddUrlEntry(SubmitUrlEntries)
    \/ RemoveUrlEntry
    \/ UpdateUrlEntryValue(SubmitUrlValues)
    \/ Submit(MaxTasks)
    \/ SubmitBlocked
    \/ FetchResponse
    \/ ReportResponse
    \/ SubmitSpeechResponse

SpecSubmit == Init /\ [][NextSubmit]_vars

-----------------------------------------------------------------------------
(* SpecOrder: two distinguishable files and two distinguishable URLs; a     *)
(* submission is followed up to its report request                          *)

OrderFiles == {FileA, FileB, FileD}
OrderSelections == UNION {[1..k -> OrderFiles] : k \in 0..IntakeSelection}
OrderUrlValues == {<<>>, <<"u">>, <<" ", "v">>}

NextOrder ==
    \/ FileChange(OrderSelections, MaxFileTasks)
    \/ FileRead
    \/ RemoveFile
    \/ AddUrlEntry(SubmitUrlEntries)
    \/ RemoveUrlEntry
    \/ UpdateUrlEntryValue(OrderUrlValues)
    \/ Submit(MaxTasks)
    \/ FetchResponse

SpecOrder == Init /\ [][NextOrder]_vars

-----------------------------------------------------------------------------
(* SpecSlots: selections of MAX_IMAGES + 1 files against the slots that the *)
(* URL entries leave                                                        *)

SlotSelections == {<<FileA>>, <<FileB>> \o FullSelection, FullSelection \o <<FileB>>}
SlotUrlValues == {<<>>, <<"u">>}

NextSlots ==
    \/ FileChange(SlotSelections, MaxFileTasks)
    \/ FileRead
    \/ RemoveFile
    \/ AddUrlEntry(MaxUrlEntries)
    \/ RemoveUrlEntry
    \/ UpdateUrlEntryValue(SlotUrlValues)

SpecSlots == Init /\ [][NextSlots]_vars

-----------------------------------------------------------------------------
(* SpecLimits: the URL section with as many fields as its add button gives, *)
(* left blank, and selections of MAX_IMAGES files and more                  *)

NextLimits ==
    \/ FileChange({FullSelection, FullSelection \o <<FileB>>}, MaxFileTasks)
    \/ FileRead
    \/ RemoveFile
    \/ AddUrlEntry(MAX_IMAGES + 1)
    \/ RemoveUrlEntry

SpecLimits == Init /\ [][NextLimits]_vars

-----------------------------------------------------------------------------
(* SpecEditor: the report editor with two submissions at a time over a      *)
(* one-file selection, the URL section left alone                           *)

NextEditor ==
    \/ FileChange({<<FileA>>}, MaxFileTasks)
    \/ FileRead
    \/ Submit(OverlapTasks)
    \/ ReportResponse
    \/ SubmitSpeechResponse
    \/ EditClick
    \/ EditType(SpecEditTexts)
    \/ SaveClick
    \/ CancelClick

SpecEditor == Init /\ [][NextEditor]_vars

-----------------------------------------------------------------------------
(* SpecModal: the image preview over one-file selections *)

NextModal ==
    \/ FileChange({<<FileA>>}, MaxFileTasks)
    \/ FileRead
    \/ OpenImagePreview
    \/ CloseImagePreview
    \/ Wheel
    \/ MouseDown
    \/ MouseMove
    \/ MouseUp

SpecModal == Init /\ [][NextModal]_vars

-----------------------------------------------------------------------------
(* Properties *)

LastTask == last.t[1]
LogHas(t, ev) == \E k \in DOMAIN t.log : t.log[k].ev = ev
LogLast(t) == IF t.log = <<>> THEN "none" ELSE t.log[Len(t.log)].ev
IsInfix(x, s) == \E a \in 0..(Len(s) - Len(x)) : SubSeq(s, a + 1, a + Len(x)) = x
NonBlank(urls) == {j \in DOMAIN urls : Truthy(trim(urls[j]))}
\* the image count of the render a submission started from
SnapshotTotal(t) == Len(t.files) + Cardinality(NonBlank(t.urls))

\* C1: when a submission that no other user action accompanied gets its
\* report text R (non-empty) and then its audio, the step that ends it leaves
\* reportData = {text: R, audioDataUrl: audio of R}, isLoading = false and
\* error = null.
C1_CleanSubmissionResult ==
    (last.op = "submitSpeechResponse" /\ LastTask.clean /\ LogLast(LastTask) = "speechOk")
        => /\ state.reportData = Report(LastTask.text, Some(Synth(LastTask.text)))
           /\ ~state.isLoading
           /\ state.error = None

\* C2: a save of the edited text T leaves reportData = {text: T,
\* audioDataUrl: null} and error = null.
C2_SaveReplacesTextDropsAudio ==
    last.op = "save"
        => /\ state.reportData = Report(last.arg[1], None)
           /\ state.error = None

C2_Witness ==
    /\ last.op = "save"
    /\ last.arg = Some(<<"t">>)
    /\ ReportText(state) = Some(<<"t">>)
    /\ tasks # {}

\* C3: in every reachable state a non-null audioDataUrl is the audio of the
\* current reportData.text; in particular, after a saved edit no audio of an
\* earlier text comes back.
C3_AudioIsOfCurrentText ==
    AudioDataUrl(state) # None
        => /\ ReportText(state) # None
           /\ AudioDataUrl(state) = Some(Synth(ReportText(state)[1]))

\* C4: a submission never starts from a render that shows more than
\* MAX_IMAGES images (staged files plus non-blank URL entries), and no request
\* on the network belongs to such a submission.
C4_OverLimitNeverSubmits ==
    /\ last.op = "submit" => SnapshotTotal(LastTask) <= MAX_IMAGES
    /\ \A t \in tasks : t.kind = "submit" => SnapshotTotal(t) <= MAX_IMAGES
    /\ \A rq \in net : \E t \in tasks : t.tid = rq.tid

C4_Witness ==
    /\ last.op = "submitBlocked"
    /\ totalImagesProvided(state) > MAX_IMAGES
    /\ Truthy(trim(state.prompt))
    /\ ~state.isLoading
    /\ tasks = {}
    /\ net = {}

\* C5: a submission attempted with an empty or whitespace-only prompt leaves
\* the error 'Por favor, insira um prompt.'.
C5_BlankPromptMessage ==
    (last.op = "submitBlocked" /\ ~Truthy(trim(state.prompt)) /\ ~state.isLoading)
        => state.error = Some(MsgNoPrompt)

\* C6: a failed URL fetch ends the submission at once: the handler returns,
\* it has sent no report and no speech request and leaves none on the network,
\* isLoading is false and the error contains the failing entry's URL.
C6_FetchFailureAborts ==
    (last.op = "fetchResponse" /\ LogLast(LastTask) = "fetchFail")
        => /\ last.done
           /\ ~LogHas(LastTask, "report")
           /\ ~LogHas(LastTask, "speech")
           /\ \A rq \in net : rq.tid # LastTask.tid
           /\ ~state.isLoading
           /\ state.error # None
           /\ IsInfix(substring(LastTask.urls[LastTask.i], 0, URL_ECHO_LEN), state.error[1])
           /\ Truthy(trim(LastTask.urls[LastTask.i]))

C6_Witness ==
    /\ last.op = "fetchResponse"
    /\ LogLast(LastTask) = "fetchFail"
    /\ LogHas(LastTask, "fetchOk")
    /\ LastTask.files # <<>>

\* C7: when a file selection has been processed, every file of it larger than
\* MAX_FILE_SIZE_BYTES is named by the file error and is not staged, every
\* readable file of at most that size within the available slots is staged,
\* and no staged file is larger than MAX_FILE_SIZE_BYTES.
C7_OversizedNamedValidStaged ==
    /\ \A k \in DOMAIN state.processedFiles :
            state.processedFiles[k].size <= MAX_FILE_SIZE_BYTES
    /\ (last.op \in {"fileChange", "fileRead"} /\ last.done)
        => LET ft == last.arg[1]
               within == SubSeq(ft.selection, 1, Min(Len(ft.selection), Max(0, ft.slots)))
               valid(f) == f.size <= MAX_FILE_SIZE_BYTES /\ f.readable
           IN  /\ \A k \in DOMAIN ft.selection :
                      ft.selection[k].size > MAX_FILE_SIZE_BYTES
                          => /\ fileError # None
                             /\ IsInfix(MsgTooBig(ft.selection[k].name), fileError[1])
               /\ state.processedFiles =
                      [k \in 1..Len(SelectSeq(within, valid)) |->
                          Staged(SelectSeq(within, valid)[k])]

\* C8: the number of staged files plus non-blank URL entries never exceeds
\* MAX_IMAGES.
C8_TotalWithinLimit == totalImagesProvided(state) <= MAX_IMAGES

\* C9: at most one remote-call handler is in progress, and a submission that
\* starts is the only one.
C9_NoOverlap ==
    /\ Cardinality(tasks) <= 1
    /\ last.op = "submit" => \A rq \in net : rq.tid = LastTask.tid

\* C10: within a submission a fetch is sent only for a non-blank entry, only
\* after every non-blank entry before it has been fetched successfully, never
\* after a failed fetch, and at most one fetch of it is on the network: the
\* one sent last, for the trimmed URL of its entry.
FetchOrderOk(t) ==
    \A k \in DOMAIN t.log :
        t.log[k].ev = "fetch"
            => LET j == t.log[k].idx
               IN  /\ j \in NonBlank(t.urls)
                   /\ \A m \in NonBlank(t.urls) :
                          m < j => \E p \in 1..(k - 1) :
                                       t.log[p] = [ev |-> "fetchOk", idx |-> m]
                   /\ \A p \in 1..(k - 1) :
                          /\ t.log[p].ev # "fetchFail"
                          /\ t.log[p].ev = "fetch" => t.log[p].idx < j

C10_SequentialFetches ==
    /\ \A t \in tasks \cup ToSet(last.t) : FetchOrderOk(t)
    /\ \A rq \in net :
          rq.kind = "fetch"
              => /\ \A other \in net :
                        (other.kind = "fetch" /\ other.tid = rq.tid) => other = rq
                 /\ TaskOf(rq).log[Len(TaskOf(rq).log)] = [ev |-> "fetch", idx |-> rq.idx]
                 /\ rq.url = trim(TaskOf(rq).urls[rq.idx])

C10_Witness ==
    \E t \in tasks :
        /\ NonBlank(t.urls) = {1, 2}
        /\ LogLast(t) = "fetch"
        /\ t.i = 2

\* C11: every failure leaves a non-empty App error, the string the report
\* panel renders: a selection with an oversized file once it is processed, a
\* failed image fetch, a failed report or speech request, an empty report.
C11_FailuresBecomeAppError ==
    /\ (/\ last.op \in {"fileChange", "fileRead"}
        /\ last.done
        /\ \E k \in 1..Min(Len(last.arg[1].selection), Max(0, last.arg[1].slots)) :
               last.arg[1].selection[k].size > MAX_FILE_SIZE_BYTES)
           => TruthyOpt(state.error)
    /\ (last.t # None /\ LogLast(LastTask) \in {"fetchFail", "reportFail", "speechFail"})
           => TruthyOpt(state.error) /\ View(state, ro) = "error"
    /\ (/\ last.op = "reportResponse"
        /\ LogLast(LastTask) = "reportOk"
        /\ ReportText(state) = Some(<<>>))
           => TruthyOpt(state.error) /\ View(state, ro) = "error"

\* C12: when a submission that no other user action accompanied gets its
\* report text R and its speech request then fails, the step that ends it
\* leaves a non-empty error, isLoading = false and reportData = {text: R,
\* audioDataUrl: null}.
C12_SpeechFailureKeepsReport ==
    (last.op = "submitSpeechResponse" /\ LastTask.clean /\ LogLast(LastTask) = "speechFail")
        => /\ TruthyOpt(state.error)
           /\ ~state.isLoading
           /\ state.reportData = Report(LastTask.text, None)

\* C13: when the report request returns the empty text, the handler returns
\* at once: it has sent no speech request and leaves none on the network,
\* isLoading is false and error is 'Falha ao gerar o texto do laudo.'.
C13_EmptyReportEnds ==
    (/\ last.op = "reportResponse"
     /\ LogLast(LastTask) = "reportOk"
     /\ ReportText(state) = Some(<<>>))
        => /\ last.done
           /\ ~LogHas(LastTask, "speech")
           /\ \A rq \in net : rq.tid # LastTask.tid
           /\ ~state.isLoading
           /\ state.error = Some(MsgEmptyReport)

C13_Witness ==
    /\ last.op = "reportResponse"
    /\ LogLast(LastTask) = "reportOk"
    /\ ReportText(state) = Some(<<>>)
    /\ LogHas(LastTask, "fetchOk")
    /\ LastTask.files # <<>>

\* a submission that has collected n image parts, for the calls of C14
TaskWithParts(n) ==
    [tid |-> 0, kind |-> "submit", pc |-> "start", files |-> <<>>, urls |-> <<>>,
     prompt |-> DefaultPrompt, i |-> 0,
     parts |-> [k \in 1..n |-> FilePart(Staged(FileA))],
     text |-> <<>>, clean |-> TRUE, log |-> <<>>]

\* C14: every report request on the network carries between 1 and 10 image
\* parts; a submission that ends without having sent a report request ends
\* with a non-empty error; handleSubmit, reaching the end of its loops with no
\* image part, stops with 'Nenhuma imagem fornecida...' and no request; and
\* generateReportFromImage, called in the current state with 0 or 11 parts,
\* throws (the handler ends with an error) without creating a request.
C14_ReportPartsWithinBounds ==
    /\ \A rq \in net : rq.kind = "report" => Len(rq.parts) \in 1..SERVICE_MAX_PARTS
    /\ (/\ last.t # None
        /\ LastTask.kind = "submit"
        /\ last.done
        /\ ~LogHas(LastTask, "report"))
           => TruthyOpt(state.error) /\ ~state.isLoading
    /\ LET r == SubmitAfterLoop(state, TaskWithParts(0))
       IN  r.done /\ r.req = None /\ r.st.error = Some(MsgNoImages)
    /\ \A n \in {0, SERVICE_MAX_PARTS + 1} :
           LET r == generateReportFromImage(state, TaskWithParts(n))
           IN  /\ r.done
               /\ r.req = None
               /\ ~LogHas(r.t, "report")
               /\ r.st.error = Some(MsgSubmitFailed(IF n = 0 THEN ErrNoParts
                                                    ELSE ErrTooManyParts))

C14_Witness ==
    \E rq \in net : rq.kind = "report" /\ Len(rq.parts) = SERVICE_MAX_PARTS

\* the image parts a submission owes for the render it started from
ExpectedParts(t) ==
    LET filled == SelectSeq(t.urls, LAMBDA u : Truthy(trim(u)))
    IN  [k \in 1..Len(t.files) |-> FilePart(t.files[k])]
            \o [k \in 1..Len(filled) |-> UrlPart(trim(filled[k]))]

Sent(t, ev, idx) ==
    Cardinality({k \in DOMAIN t.log : t.log[k].ev = ev /\ t.log[k].idx = idx})

LogFailed(t) == \E k \in DOMAIN t.log : t.log[k].ev \in {"fetchFail", "reportFail", "speechFail"}

\* C16: a handler sends at most one report request, at most one speech
\* request and at most one fetch per URL entry; the step in which one of its
\* requests fails ends the handler with none of its requests on the network;
\* and every step that puts a request on the network is a click on the
\* submit or generate-audio button or the continuation of a handler that has
\* had no failure.
C16_NothingRetried ==
    /\ [](\A t \in tasks \cup ToSet(last.t) :
              /\ Sent(t, "report", 0) <= 1
              /\ Sent(t, "speech", 0) <= 1
              /\ \A j \in DOMAIN t.urls : Sent(t, "fetch", j) <= 1
              /\ LogFailed(t) => /\ t \notin tasks
                                 /\ \A rq \in net : rq.tid # t.tid)
    /\ [][\A rq \in net' \ net :
              /\ last'.t # None
              /\ rq.tid = last'.t[1].tid
              /\ ~LogFailed(last'.t[1])
              /\ \/ last'.op \in {"submit", "generateAudio"}
                 \/ \E t \in tasks : t.tid = rq.tid /\ ~LogFailed(t)]_vars

C16_Witness ==
    /\ last.op = "regenSpeechResponse"
    /\ LogLast(LastTask) = "speechFail"
    /\ net = {}
    /\ tasks = {}

Running(n) == \E t \in tasks : t.tid = n
Finished(n) == last.t # None /\ last.done /\ LastTask.tid = n /\ ~state.isLoading

\* C17: when every remote call eventually settles, a submission or audio
\* regeneration that is waiting for a remote call eventually runs its last
\* step, whatever the outcome, and that step leaves isLoading = false.
C17_EveryHandlerFinishes ==
    \A n \in 1..MaxTasks : Running(n) ~> Finished(n)

C17_Witness ==
    /\ Finished(1)
    /\ LastTask.kind = "submit"
    /\ LogLast(LastTask) = "speechFail"

C19_SubmitOverwritesResult ==
    /\ last.op = "submit"
           => state.reportData = None /\ state.error = None /\ state.isLoading
    /\ (/\ last.t # None
        /\ LastTask.kind = "submit"
        /\ last.done
        /\ LogFailed(LastTask)
        /\ ~LogHas(LastTask, "reportOk"))
           => state.reportData = None

\* the entries a selection stages: its files within the slots that were free,
\* up to the size limit and readable, in selection order
Accepted(selection, slots) ==
    LET considered == SubSeq(selection, 1, Min(Len(selection), Max(0, slots)))
        kept == SelectSeq(considered,
                          LAMBDA f : f.size <= MAX_FILE_SIZE_BYTES /\ f.readable)
    IN  [k \in 1..Len(kept) |-> Staged(kept[k])]

\* new is old without its entry at one position
OneRemoved(old, new) ==
    \E i \in DOMAIN old :
        /\ Len(new) = Len(old) - 1
        /\ \A k \in DOMAIN new : new[k] = IF k < i THEN old[k] ELSE old[k + 1]

\* C20: the step that completes a file selection leaves as staged list exactly
\* the accepted files of that selection, in selection order, whatever was
\* staged before; removing a staged file leaves the list without that one
\* entry, the others in their order, and the URL entries as they were; and
\* removing a URL entry does the same to the URL entries and leaves the
\* staged files as they were.
C20_SelectionReplacesRemovalRemovesOne ==
    /\ []((last.op \in {"fileChange", "fileRead"} /\ last.done)
              => state.processedFiles
                     = Accepted(last.arg[1].selection, last.arg[1].slots))
    /\ [][RemoveFile => /\ OneRemoved(state.processedFiles, state'.processedFiles)
                        /\ state'.urlEntries = state.urlEntries]_vars
    /\ [][RemoveUrlEntry => /\ OneRemoved(state.urlEntries, state'.urlEntries)
                            /\ state'.processedFiles = state.processedFiles]_vars

C20_Witness ==
    /\ last.op = "fileRead"
    /\ last.done
    /\ last.arg[1].selection = <<FileD, FileA>>
    /\ state.processedFiles = <<Staged(FileD), Staged(FileA)>>
    /\ Len(state.urlEntries) = 2

\* C21: the step that follows a save of text T leaves reportData.text = T
\* unless it is another save or the click that starts a submission; in
\* particular the completion of a report or speech request that was pending at
\* the save does not replace T.
C21_SavedTextStays ==
    [][(last.op = "save" /\ last'.op \notin {"save", "submit"})
           => ReportText(state') = ReportText(state)]_vars

\* C22: reportData is null or has a text; an audio data URL is never held
\* without a report text.
C22_ReportDataHasText ==
    /\ state.reportData = None \/ state.reportData[1].text # None
    /\ AudioDataUrl(state) # None => ReportText(state) # None

\* C23: a step taken while isLoading is true leaves the prompt, the staged
\* file list and the URL entry list as they were.
C23_InputsFrozenWhileLoading ==
    [][state.isLoading
           => /\ state'.prompt = state.prompt
              /\ state'.processedFiles = state.processedFiles
              /\ state'.urlEntries = state.urlEntries]_vars

\* C24: the report panel shows the loading skeleton when isLoading and there
\* is no report text; otherwise the error when error is non-null, whatever
\* text and audio are held; otherwise the placeholder when there is no report
\* text, no audio and no edit in progress; otherwise the report.
C24_ViewPrecedence ==
    LET noText == ReportText(state) \in {None, Some(<<>>)}
    IN  /\ (state.isLoading /\ noText) => View(state, ro) = "loading"
        /\ (~(state.isLoading /\ noText) /\ state.error # None)
               => View(state, ro) = "error"
        /\ (/\ ~(state.isLoading /\ noText)
            /\ state.error = None
            /\ noText /\ AudioDataUrl(state) = None /\ ~ro.isEditing)
               => View(state, ro) = "placeholder"
        /\ (/\ ~(state.isLoading /\ noText)
            /\ state.error = None
            /\ ~(noText /\ AudioDataUrl(state) = None /\ ~ro.isEditing))
               => View(state, ro) = "report"

C24_Witness ==
    /\ View(state, ro) = "error"
    /\ TruthyOpt(ReportText(state))
    /\ ~state.isLoading

\* C25: a selection finds MAX_IMAGES minus the number of non-empty URL entries
\* slots free; when it holds more files than that, the file error says at
\* once that only the first that-many were considered; and when it
\* completes, the staged files are the readable files up to the size limit
\* among those first, in order: an oversized file among them is not made up
\* for by a later one, and no more files are staged than there were slots.
C25_SelectionCutToSlots ==
    /\ last.op = "fileChange"
           => LET ft == last.arg[1]
              IN  /\ ft.slots = MAX_IMAGES - numFilledUrlEntries(state)
                  /\ Len(ft.selection) > ft.slots
                         => /\ fileError # None
                            /\ IsInfix(MsgTruncated(ft.slots), fileError[1])
    /\ (last.op \in {"fileChange", "fileRead"} /\ last.done)
           => LET ft == last.arg[1]
                  n == Min(Len(ft.selection), Max(0, ft.slots))
                  good == {k \in 1..n : /\ ft.selection[k].size <= MAX_FILE_SIZE_BYTES
                                        /\ ft.selection[k].readable}
              IN  /\ Len(state.processedFiles) = Cardinality(good)
                  /\ Len(state.processedFiles) <= Max(0, ft.slots)
                  /\ state.processedFiles = Accepted(ft.selection, ft.slots)

C25_Witness ==
    /\ last.op = "fileRead"
    /\ last.done
    /\ last.arg[1].selection = <<FileB>> \o FullSelection
    /\ last.arg[1].slots = MAX_IMAGES - 1
    /\ Len(state.processedFiles) = MAX_IMAGES - 2

\* C26: the URL entry list never has more than MAX_IMAGES entries and the
\* staged file list never more than MAX_IMAGES files; and addUrlEntry leaves
\* the state as it is when there are MAX_IMAGES entries already or when the
\* staged files and the non-empty URL entries total MAX_IMAGES or more.
C26_ListsWithinLimit ==
    /\ Len(state.urlEntries) <= MAX_IMAGES
    /\ Len(state.processedFiles) <= MAX_IMAGES
    /\ (\/ Len(state.urlEntries) >= MAX_IMAGES
        \/ Len(state.processedFiles) + numFilledUrlEntries(state) >= MAX_IMAGES)
           => addUrlEntry(state) = state

C26_Witness ==
    /\ Len(state.urlEntries) = MAX_IMAGES
    /\ Len(state.processedFiles) + numFilledUrlEntries(state) < MAX_IMAGES
    /\ addUrlEntry(state) = state

\* C27: a click on Cancel leaves the App state as it is (report text, audio,
\* error and loading flag included), leaves the editor closed and leaves the
\* edit buffer equal to the current report text.
C27_CancelKeepsState ==
    [][CancelClick
           => /\ state' = state
              /\ ~ro'.isEditing
              /\ ro'.editedText = IF ReportText(state) = None THEN <<>>
                                  ELSE ReportText(state)[1]]_vars

\* C28: in the image preview, zoom and pan go back to 1 and (0, 0) only when
\* the displayed image changes: a step that keeps the image and is neither a
\* wheel event nor a drag movement leaves both alone, and a mouse press on the
\* image while zoom > 1 starts a drag and leaves zoom and pan unchanged.
C28_ResetOnlyOnImageChange ==
    [][/\ (modal'.imageUrl = modal.imageUrl /\ ~Wheel /\ ~MouseMove)
              => (modal'.zoom = modal.zoom /\ modal'.pan = modal.pan)
       /\ (MouseDown /\ modal.zoom > ZoomScale)
              => /\ modal'.isDragging
                 /\ modal'.zoom = modal.zoom
                 /\ modal'.pan = modal.pan]_vars

\* C29: zoom stays within [MIN_ZOOM, MAX_ZOOM] whatever wheel events arrive;
\* a wheel event whose clamped result is the present zoom (zooming in at the
\* maximum, out at the minimum) leaves zoom and pan unchanged; a mouse press
\* while zoom <= 1 starts no drag and changes nothing of the component.
C29_ZoomWithinLimits ==
    [][/\ MIN_ZOOM <= modal'.zoom /\ modal'.zoom <= MAX_ZOOM
       /\ Wheel => /\ modal'.zoom = modal.zoom => modal'.pan = modal.pan
                   /\ (modal.zoom = MAX_ZOOM /\ modal'.ev.deltaY < 0)
                          => (modal'.zoom = modal.zoom /\ modal'.pan = modal.pan)
                   /\ (modal.zoom = MIN_ZOOM /\ modal'.ev.deltaY > 0)
                          => (modal'.zoom = modal.zoom /\ modal'.pan = modal.pan)
       /\ (MouseDown /\ modal.zoom <= ZoomScale)
              => /\ ~modal'.isDragging
                 /\ modal'.listeners = modal.listeners
                 /\ modal' = [modal EXCEPT !.ev = modal'.ev]]_vars

\* a wheel event zooming in has brought the preview to the maximum, its pan
\* following the pointer
C29_Witness ==
    /\ modal.ev.op = "wheel"
    /\ modal.ev.deltaY < 0
    /\ modal.zoom = MAX_ZOOM
    /\ modal.pan = [x |-> Pointer.x - 2 * MAX_ZOOM, y |-> Pointer.y - MAX_ZOOM]

====
